---- MODULE Spec2Model ----
(***************************************************************************)
(* Model of the allowed-fsgroups PSP policy: the settings model and its    *)
(* validation (src/src/settings.rs) and the decision engine with its       *)
(* boundary function (src/src/lib.rs).                                     *)
(*                                                                         *)
(* Encodings.  An Option<T> is a sequence of length at most one: <<>> is   *)
(* None, <<v>> is Some(v).  A key of a JSON object that may be absent is   *)
(* encoded the same way.  A text built by format! is the sequence of its   *)
(* pieces, so that the numbers and names it carries stay visible.          *)
(***************************************************************************)
EXTENDS Integers, Sequences, FiniteSets, TLC

\* ------------------------------------------------------------------ bounds

\* i64 values that ranges and fsGroup are drawn from: 0..MaxVal
MaxVal == 1
\* longest configured range list
MaxRanges == 2
\* how many times validate_settings is called on one Settings value
MaxValidations == 2

Vals == 0..MaxVal
Names == {"web", "db"}
Images == {"nginx"}
Uids == {1000}

None == <<>>
Some(v) == <<v>>
Opt(S) == {None} \cup {Some(v) : v \in S}

VARIABLES
    config,          \* the configuration document the Settings were read from
    settings,        \* the deserialized Settings value
    validations,     \* number of Settings::validate calls made so far
    settingsResult,  \* result of the latest Settings::validate call
    object,          \* request.object: the JSON value embedded in the request
    response,        \* result of the latest direct do_validate call
    callResult,      \* CallResult of the latest call of the boundary validate
    engineInvoked,   \* whether that call of validate reached do_validate
    again            \* result of do_validate on the workload it mutated

vars == <<config, settings, validations, settingsResult, object, response,
          callResult, engineInvoked, again>>

\* ---------------------------------------------------------------- settings

RangedRules == {"MustRunAs", "MayRunAs"}

\* struct Range { min: i64, max: i64 }
RangeSet == [min : Vals, max : Vals]

RangeSeqs == UNION {[1..n -> RangeSet] : n \in 0..MaxRanges}

\* struct Settings { rule: Rule }, Rule = MustRunAs(Ranges) | MayRunAs(Ranges) | RunAsAny
SettingsSet ==
    {[rule |-> "RunAsAny", ranges |-> <<>>]}
        \cup [rule : RangedRules, ranges : RangeSeqs]

\* A range of the configuration document: each of min, max may be missing.
RawRangeSet == [min : Opt(Vals), max : Opt(Vals)]

RawRangeSeqs == UNION {[1..n -> RawRangeSet] : n \in 0..MaxRanges}

ConfigSet ==
    {[rule |-> "RunAsAny", ranges |-> <<>>]}
        \cup [rule : RangedRules, ranges : RawRangeSeqs]

\* #[serde(default)] on Range: a missing field takes i64's default, zero.
DeserializeRange(raw) ==
    [min |-> IF raw.min = None THEN 0 ELSE raw.min[1],
     max |-> IF raw.max = None THEN 0 ELSE raw.max[1]]

\* Deserialize for Settings: the rule tag, and the ranges one by one.
DeserializeSettings(cfg) ==
    [rule |-> cfg.rule,
     ranges |-> [i \in DOMAIN cfg.ranges |-> DeserializeRange(cfg.ranges[i])]]

\* Serialize for Settings: every field of every range is written.
SerializeSettings(s) ==
    [rule |-> s.rule,
     ranges |-> [i \in DOMAIN s.ranges |->
                    [min |-> Some(s.ranges[i].min), max |-> Some(s.ranges[i].max)]]]

Ok == [ok |-> TRUE, err |-> <<>>]
Err(msg) == [ok |-> FALSE, err |-> msg]
Unchecked == [ok |-> FALSE, err |-> <<"unchecked">>]

RangeCheckNonStrict(range) ==
    IF range.min >= range.max
        THEN Err(<<"min on range cannot be greater than max">>)
        ELSE Ok

\* Range::check
RangeCheck(range) ==
    IF range.min > range.max
        THEN Err(<<"min on range cannot be greater than max">>)
        ELSE Ok

\* Display for Rule
RuleName(rule) == rule

SettingsValidateNoEmptyCheck(s) ==
    IF s.rule \in RangedRules
        THEN IF ~(\A i \in DOMAIN s.ranges : RangeCheck(s.ranges[i]).ok)
                 THEN Err(<<"all ranges must be valid">>)
                 ELSE Ok
        ELSE Ok

SettingsValidateRejectsZero(s) ==
    IF s.rule \in RangedRules
        THEN IF s.ranges = <<>>
                 THEN Err(<<RuleName(s.rule), " must contain at least one range">>)
                 ELSE IF ~(\A i \in DOMAIN s.ranges :
                               /\ RangeCheck(s.ranges[i]).ok
                               /\ s.ranges[i] # [min |-> 0, max |-> 0])
                          THEN Err(<<"all ranges must be valid">>)
                          ELSE Ok
        ELSE Ok

SettingsValidateAnyRangeValid(s) ==
    IF s.rule \in RangedRules
        THEN IF s.ranges = <<>>
                 THEN Err(<<RuleName(s.rule), " must contain at least one range">>)
                 ELSE IF ~(\E i \in DOMAIN s.ranges : RangeCheck(s.ranges[i]).ok)
                          THEN Err(<<"all ranges must be valid">>)
                          ELSE Ok
        ELSE Ok

\* Validatable::validate for Settings
SettingsValidate(s) ==
    IF s.rule \in RangedRules
        THEN IF s.ranges = <<>>
                 THEN Err(<<RuleName(s.rule), " must contain at least one range">>)
                 ELSE IF ~(\A i \in DOMAIN s.ranges : RangeCheck(s.ranges[i]).ok)
                          THEN Err(<<"all ranges must be valid">>)
                          ELSE Ok
        ELSE Ok

\* ---------------------------------------------------------------- workload

\* securityContext of the request object
JsonSecurityContextSet == [fsGroup : Opt(Vals), runAsUser : Opt(Uids)]

\* spec of the request object; containers is the key PodSpec requires
JsonSpecSet ==
    [containers : Opt(Images), securityContext : Opt(JsonSecurityContextSet)]

\* request.object
ObjectSet == [metadata : Names, spec : Opt(JsonSpecSet)]

\* serde_json::from_value::<Pod>: fails when spec lacks the required
\* containers; otherwise the keys become the fields of Pod, PodSpec and
\* PodSecurityContext and an absent key becomes None.
DecodePod(obj) ==
    IF obj.spec # None /\ obj.spec[1].containers = None
        THEN [ok |-> FALSE, pod |-> None]
        ELSE [ok |-> TRUE,
              pod |-> Some(
                [metadata |-> obj.metadata,
                 spec |->
                    IF obj.spec = None THEN None
                    ELSE Some(
                      [containers |-> obj.spec[1].containers[1],
                       security_context |->
                          IF obj.spec[1].securityContext = None THEN None
                          ELSE Some(
                            [fs_group |-> obj.spec[1].securityContext[1].fsGroup,
                             run_as_user |-> obj.spec[1].securityContext[1].runAsUser])])])]

\* serde_json::to_value of a Pod: a None field is left out of the object.
ToValue(pod) ==
    [metadata |-> pod.metadata,
     spec |->
        IF pod.spec = None THEN None
        ELSE Some(
          [containers |-> Some(pod.spec[1].containers),
           securityContext |->
              IF pod.spec[1].security_context = None THEN None
              ELSE Some(
                [fsGroup |-> pod.spec[1].security_context[1].fs_group,
                 runAsUser |-> pod.spec[1].security_context[1].run_as_user])])]

\* PodSecurityContext::default()
DefaultPodSecurityContext == [fs_group |-> None, run_as_user |-> None]

\* ------------------------------------------------------------------ engine

\* enum PolicyResponse, and the two ways do_validate ends without one
Accept == [kind |-> "Accept", message |-> <<>>, object |-> None]
Reject(msg) == [kind |-> "Reject", message |-> msg, object |-> None]
Mutate(value) == [kind |-> "Mutate", message |-> <<>>, object |-> Some(value)]
EngineError(msg) == [kind |-> "Err", message |-> msg, object |-> None]
Panic == [kind |-> "Panic", message |-> <<>>, object |-> None]
NoResponse == [kind |-> "None", message |-> <<>>, object |-> None]

\* the closure of validate_fs_group
InRange(fs_group, range) ==
    fs_group >= range.min /\ fs_group <= range.max

validate_fs_group_first_only(fs_group, ranges) ==
    IF ranges # <<>> /\ InRange(fs_group, ranges[1])
        THEN Accept
        ELSE Reject(<<"fsGroup ", fs_group, " is not included in any range">>)

validate_fs_group(fs_group, ranges) ==
    IF \E i \in DOMAIN ranges : InRange(fs_group, ranges[i])
        THEN Accept
        ELSE Reject(<<"fsGroup ", fs_group, " is not included in any range">>)

RECURSIVE SmallestMin(_)
SmallestMin(ranges) ==
    IF Len(ranges) = 1 THEN ranges[1].min
    ELSE LET rest == SmallestMin(Tail(ranges))
         IN IF ranges[1].min < rest THEN ranges[1].min ELSE rest

DefaultFsGroupSmallest(ranges) ==
    IF ranges = <<>> THEN None ELSE Some(SmallestMin(ranges))

\* ranges.ranges.first().map(|r| r.min): None when the list is empty
DefaultFsGroup(ranges) ==
    IF ranges = <<>> THEN None ELSE Some(ranges[1].min)

\* the arm Rule::MustRunAs of do_validate
MustRunAs(pod, pod_spec, ranges) ==
    IF DefaultFsGroup(ranges) = None
        THEN Panic      \* unwrap() of None, before anything of the pod is read
        ELSE
            LET pod_with_defaulted_fs_group ==
                    [pod EXCEPT !.spec = Some(
                        [pod_spec EXCEPT !.security_context = Some(
                            [DefaultPodSecurityContext EXCEPT
                                !.fs_group = Some(DefaultFsGroup(ranges)[1])])])]
            IN  IF pod_spec.security_context # None
                    THEN IF pod_spec.security_context[1].fs_group # None
                             THEN validate_fs_group(
                                      pod_spec.security_context[1].fs_group[1], ranges)
                             ELSE Mutate(ToValue(pod_with_defaulted_fs_group))
                    ELSE Mutate(ToValue(pod_with_defaulted_fs_group))

MayRunAsRejectsAbsent(pod_spec, ranges) ==
    IF pod_spec.security_context # None
        THEN IF pod_spec.security_context[1].fs_group # None
                 THEN validate_fs_group(
                          pod_spec.security_context[1].fs_group[1], ranges)
                 ELSE Reject(<<"fsGroup must be set">>)
        ELSE Accept

\* the arm Rule::MayRunAs of do_validate
MayRunAs(pod_spec, ranges) ==
    IF pod_spec.security_context # None
        THEN IF pod_spec.security_context[1].fs_group # None
                 THEN validate_fs_group(
                          pod_spec.security_context[1].fs_group[1], ranges)
                 ELSE Accept
        ELSE Accept

do_validate_any_as_may(pod, s) ==
    IF pod.spec = None
        THEN EngineError(<<"invalid pod spec">>)
        ELSE CASE s.rule = "MustRunAs" -> MustRunAs(pod, pod.spec[1], s.ranges)
               [] s.rule = "MayRunAs" -> MayRunAs(pod.spec[1], s.ranges)
               [] s.rule = "RunAsAny" -> MayRunAs(pod.spec[1], s.ranges)

do_validate_spec_read_late(pod, s) ==
    CASE s.rule = "RunAsAny" -> Accept
      [] pod.spec = None -> EngineError(<<"invalid pod spec">>)
      [] s.rule = "MustRunAs" -> MustRunAs(pod, pod.spec[1], s.ranges)
      [] s.rule = "MayRunAs" -> MayRunAs(pod.spec[1], s.ranges)

do_validate(pod, s) ==
    IF pod.spec = None
        THEN EngineError(<<"invalid pod spec">>)
        ELSE CASE s.rule = "MustRunAs" -> MustRunAs(pod, pod.spec[1], s.ranges)
               [] s.rule = "MayRunAs" -> MayRunAs(pod.spec[1], s.ranges)
               [] s.rule = "RunAsAny" -> Accept

\* ---------------------------------------------------------------- boundary

\* CallResult of validate: Ok(ValidationResponse), Err(error), or the abort
\* of the call by a panic.
AcceptRequest ==
    [status |-> "Ok", accepted |-> TRUE, message |-> <<>>, mutated_object |-> None]
RejectRequest(msg) ==
    [status |-> "Ok", accepted |-> FALSE, message |-> msg, mutated_object |-> None]
MutateRequest(value) ==
    [status |-> "Ok", accepted |-> TRUE, message |-> <<>>, mutated_object |-> Some(value)]
CallError(msg) ==
    [status |-> "Err", accepted |-> FALSE, message |-> msg, mutated_object |-> None]
CallPanic ==
    [status |-> "Panic", accepted |-> FALSE, message |-> <<>>, mutated_object |-> None]
NoCall ==
    [status |-> "None", accepted |-> FALSE, message |-> <<>>, mutated_object |-> None]

\* the match on do_validate(pod, settings)? in validate
Encode(r) ==
    CASE r.kind = "Accept" -> AcceptRequest
      [] r.kind = "Reject" -> RejectRequest(r.message)
      [] r.kind = "Mutate" -> MutateRequest(r.object[1])
      [] r.kind = "Err" -> CallError(r.message)
      [] r.kind = "Panic" -> CallPanic

validate_decode_failure_as_default_pod(obj, s) ==
    LET pod == IF DecodePod(obj).ok THEN DecodePod(obj).pod[1]
               ELSE [metadata |-> obj.metadata, spec |-> None]
    IN  [result |-> Encode(do_validate(pod, s)), engine |-> TRUE]

\* validate, on a payload that parsed into a ValidationRequest<Settings>
validate(obj, s) ==
    LET decoded == DecodePod(obj)
    IN  IF ~decoded.ok
            THEN [result |-> AcceptRequest, engine |-> FALSE]
            ELSE [result |-> Encode(do_validate(decoded.pod[1], s)),
                  engine |-> TRUE]

\* ----------------------------------------------------------- state machine

\* A Settings value and a request object; nothing has been called yet.
Init ==
    /\ settings \in SettingsSet
    /\ config = SerializeSettings(settings)
    /\ object \in ObjectSet
    /\ validations = 0
    /\ settingsResult = Unchecked
    /\ response = NoResponse
    /\ callResult = NoCall
    /\ engineInvoked = FALSE
    /\ again = NoResponse

\* validate_settings: Settings::validate on the Settings value
ValidateSettings ==
    /\ validations < MaxValidations
    /\ validations' = validations + 1
    /\ settingsResult' = SettingsValidate(settings)
    /\ UNCHANGED <<config, settings, object, response, callResult, engineInvoked, again>>

\* do_validate called on a Pod (the decoded request object) and the Settings
DoValidate ==
    /\ DecodePod(object).ok
    /\ response' = do_validate(DecodePod(object).pod[1], settings)
    /\ UNCHANGED <<config, settings, validations, settingsResult, object,
                   callResult, engineInvoked, again>>

\* validate called on the request
Validate ==
    /\ callResult' = validate(object, settings).result
    /\ engineInvoked' = validate(object, settings).engine
    /\ UNCHANGED <<config, settings, validations, settingsResult, object, response, again>>

\* do_validate called once more, on the Pod that the Mutate response of the
\* first call carries, under the same Settings
DoValidateMutated ==
    /\ response.kind = "Mutate"
    /\ DecodePod(response.object[1]).ok
    /\ again' = do_validate(DecodePod(response.object[1]).pod[1], settings)
    /\ UNCHANGED <<config, settings, validations, settingsResult, object, response,
                   callResult, engineInvoked>>

Next ==
    \/ ValidateSettings
    \/ DoValidate
    \/ Validate
    \/ DoValidateMutated

Spec == Init /\ [][Next]_vars

\* Settings read from a configuration document whose ranges may lack fields.
InitSettings ==
    /\ config \in ConfigSet
    /\ settings = DeserializeSettings(config)
    /\ object \in {[metadata |-> "web", spec |-> None]}
    /\ validations = 0
    /\ settingsResult = Unchecked
    /\ response = NoResponse
    /\ callResult = NoCall
    /\ engineInvoked = FALSE
    /\ again = NoResponse

NextSettings == ValidateSettings

SpecSettings == InitSettings /\ [][NextSettings]_vars

\* ------------------------------------------------------------------ claims

\* the Pod that do_validate was given
pod == DecodePod(object).pod[1]
Decided == response.kind # "None"
Called == callResult.status # "None"
Validated == validations >= 1
HasSpec == DecodePod(object).ok /\ pod.spec # None
\* Option<i64>: the fsGroup of the Pod, None when the security context or the
\* field is absent
FsGroupOf(p) ==
    IF p.spec[1].security_context = None THEN None
    ELSE p.spec[1].security_context[1].fs_group
FsGroupAbsent == HasSpec /\ FsGroupOf(pod) = None
FsGroupPresent == HasSpec /\ FsGroupOf(pod) # None
SomeRangeHolds(v, ranges) ==
    \E i \in DOMAIN ranges : ranges[i].min <= v /\ v <= ranges[i].max
NotIncluded(v) == <<"fsGroup ", v, " is not included in any range">>

\* C1: under MustRunAs with a non-empty range list, a workload with a spec
\* section and no fsGroup is answered Mutate, and the fsGroup of the mutated
\* workload is the min of the first configured range, whatever the other
\* ranges are.
C1_FirstRangeMinIsDefault ==
    (Decided /\ settings.rule = "MustRunAs" /\ settings.ranges # <<>> /\ FsGroupAbsent)
        => /\ response.kind = "Mutate"
           /\ response.object[1].spec # None
           /\ response.object[1].spec[1].securityContext # None
           /\ response.object[1].spec[1].securityContext[1].fsGroup
                  = Some(settings.ranges[1].min)

\* C1 witness: a mutation made while a later range has a smaller min
C1_Witness ==
    /\ Decided /\ settings.rule = "MustRunAs" /\ FsGroupAbsent
    /\ Len(settings.ranges) >= 2
    /\ settings.ranges[2].min < settings.ranges[1].min
    /\ response.kind = "Mutate"

\* C2: whenever do_validate answers Mutate, the mutated workload equals the
\* input workload in every field but fsGroup (and the existence of the
\* security context): metadata, the other fields of the spec and the other
\* fields of a security context that was already there are unchanged.
C2_MutationChangesOnlyFsGroup ==
    (Decided /\ response.kind = "Mutate")
        => LET in == ToValue(pod)
               out == response.object[1]
           IN  /\ out.metadata = in.metadata
               /\ out.spec # None
               /\ out.spec[1].containers = in.spec[1].containers
               /\ out.spec[1].securityContext # None
               /\ in.spec[1].securityContext # None
                    => out.spec[1].securityContext[1].runAsUser
                           = in.spec[1].securityContext[1].runAsUser

\* C3 as stated: under MayRunAs or MustRunAs, a workload whose fsGroup is set
\* to v is accepted iff some configured range has min <= v <= max, and is
\* otherwise rejected with "fsGroup <v> is not included in any range"; it is
\* never mutated.
C3_Original ==
    (Decided /\ settings.rule \in RangedRules /\ FsGroupPresent)
        => LET v == FsGroupOf(pod)[1]
           IN  /\ response.kind = "Accept" <=> SomeRangeHolds(v, settings.ranges)
               /\ ~SomeRangeHolds(v, settings.ranges)
                    => response = Reject(NotIncluded(v))
               /\ response.kind # "Mutate"

\* C3 amended: the same, for MayRunAs with any range list and for MustRunAs
\* with a non-empty range list.
C3_MembershipDecides ==
    (/\ Decided /\ settings.rule \in RangedRules /\ FsGroupPresent
     /\ ~(settings.rule = "MustRunAs" /\ settings.ranges = <<>>))
        => LET v == FsGroupOf(pod)[1]
           IN  /\ response.kind = "Accept" <=> SomeRangeHolds(v, settings.ranges)
               /\ ~SomeRangeHolds(v, settings.ranges)
                    => response = Reject(NotIncluded(v))
               /\ response.kind # "Mutate"

\* C3 witness: a value accepted because of the second range only
C3_Witness ==
    /\ Decided /\ settings.rule \in RangedRules /\ FsGroupPresent
    /\ Len(settings.ranges) >= 2
    /\ ~SomeRangeHolds(FsGroupOf(pod)[1], <<settings.ranges[1]>>)
    /\ response.kind = "Accept"

\* C4: under MayRunAs, a workload with a spec section and no fsGroup is
\* accepted whatever the configured ranges are.
C4_MayRunAsAcceptsAbsent ==
    (Decided /\ settings.rule = "MayRunAs" /\ FsGroupAbsent) => response = Accept

\* C4 witness: accepted with the security context present, fsGroup unset, and
\* a range list that holds a range
C4_Witness ==
    /\ Decided /\ settings.rule = "MayRunAs" /\ FsGroupAbsent
    /\ pod.spec[1].security_context # None
    /\ settings.ranges # <<>>
    /\ response = Accept

\* C5 as stated: under RunAsAny every workload is accepted.
C5_Original ==
    (Decided /\ settings.rule = "RunAsAny") => response = Accept

\* C5 amended: under RunAsAny every workload that has a spec section is
\* accepted, whatever its other fields are.
C5_RunAsAnyAcceptsWithSpec ==
    (Decided /\ settings.rule = "RunAsAny" /\ HasSpec) => response = Accept

\* C5 witness: accepted with an fsGroup set
C5_Witness ==
    /\ Decided /\ settings.rule = "RunAsAny" /\ FsGroupPresent
    /\ response = Accept

\* C6: with settings that passed validation, do_validate ends in an engine
\* error iff the workload has no spec section, for every rule; validate hands
\* that error on as an error, not as a rejection response.
C6_ErrorIffNoSpec ==
    /\ (Validated /\ settingsResult.ok /\ Decided)
          => /\ response.kind = "Err" <=> ~HasSpec
             /\ HasSpec => response.kind \in {"Accept", "Reject", "Mutate"}
    /\ (Validated /\ settingsResult.ok /\ Called /\ DecodePod(object).ok)
          => /\ callResult.status = "Err" <=> ~HasSpec
             /\ ~HasSpec => callResult = CallError(<<"invalid pod spec">>)
             /\ HasSpec => callResult.status = "Ok"

\* C6 witness: both calls made on a workload without spec, under RunAsAny
C6_Witness ==
    /\ Validated /\ settingsResult.ok /\ Decided /\ Called
    /\ DecodePod(object).ok /\ ~HasSpec
    /\ settings.rule = "RunAsAny"
    /\ callResult.status = "Err"

\* C8: when the request object does not decode into a Pod, validate answers
\* an unconditional accept and do_validate is not invoked, whatever the
\* settings are.
C8_UndecodableIsAccepted ==
    (Called /\ ~DecodePod(object).ok)
        => callResult = AcceptRequest /\ ~engineInvoked

\* C8 witness: such a call under MustRunAs with a range configured
C8_Witness ==
    /\ Called /\ ~DecodePod(object).ok
    /\ settings.rule = "MustRunAs" /\ settings.ranges # <<>>
    /\ callResult = AcceptRequest

\* C10: when Settings validation returned Ok and the workload has a spec
\* section, do_validate ends with Accept, Reject or Mutate and does not abort
\* on the first range: under MustRunAs the range list has a first element.
C10_ValidatedNeverAborts ==
    (Validated /\ settingsResult.ok /\ Decided /\ HasSpec)
        => /\ response.kind \in {"Accept", "Reject", "Mutate"}
           /\ settings.rule = "MustRunAs" => Len(settings.ranges) >= 1

\* C10 witness: a validated MustRunAs decision
C10_Witness ==
    /\ Validated /\ settingsResult.ok /\ Decided /\ HasSpec
    /\ settings.rule = "MustRunAs"
    /\ response.kind = "Mutate"

\* C7: Settings validation is this function: RunAsAny is valid; MayRunAs and
\* MustRunAs with an empty range list fail with "<RuleName> must contain at
\* least one range", checked first; otherwise a range with min > max fails
\* with "all ranges must be valid"; otherwise, min = max included, it
\* succeeds.  Validating the same settings again gives the same result.
C7_ValidationFunction ==
    Validated =>
        CASE settings.rule = "RunAsAny" -> settingsResult = Ok
          [] settings.rule \in RangedRules /\ Len(settings.ranges) = 0 ->
                settingsResult = Err(<<settings.rule, " must contain at least one range">>)
          [] settings.rule \in RangedRules /\ Len(settings.ranges) > 0 ->
                IF \E i \in 1..Len(settings.ranges) :
                        settings.ranges[i].min > settings.ranges[i].max
                    THEN settingsResult = Err(<<"all ranges must be valid">>)
                    ELSE settingsResult = Ok

\* C7 witness: a second validation accepting a list that holds a range with
\* min = max
C7_Witness ==
    /\ validations >= 2
    /\ settings.rule \in RangedRules
    /\ \E i \in DOMAIN settings.ranges : settings.ranges[i].min = settings.ranges[i].max
    /\ settingsResult = Ok

BothMissing(raw) == raw.min = None /\ raw.max = None

\* C9 as stated: a MayRunAs/MustRunAs configuration in which a range's
\* missing min and max have defaulted to zero is rejected by Settings
\* validation.
C9_Original ==
    (/\ Validated /\ config.rule \in RangedRules
     /\ \E i \in DOMAIN config.ranges : BothMissing(config.ranges[i]))
        => ~settingsResult.ok

\* C9 amended: a range whose missing min and max have defaulted to zero is
\* the range {min: 0, max: 0}, which Settings validation accepts: a
\* configuration whose ranges all lack both fields passes validation, and a
\* configuration holding such a range is rejected only when another of its
\* ranges, after defaulting, has min > max.
C9_ZeroRangeIsAccepted ==
    (/\ Validated /\ config.rule \in RangedRules
     /\ \E i \in DOMAIN config.ranges : BothMissing(config.ranges[i]))
        => /\ \A i \in DOMAIN config.ranges :
                  BothMissing(config.ranges[i])
                      => settings.ranges[i] = [min |-> 0, max |-> 0]
           /\ (\A i \in DOMAIN config.ranges : BothMissing(config.ranges[i]))
                  => settingsResult = Ok
           /\ ~settingsResult.ok
                  => \E i \in DOMAIN settings.ranges :
                        /\ ~BothMissing(config.ranges[i])
                        /\ settings.ranges[i].min > settings.ranges[i].max

\* C9 witness: a validated configuration of one range with both fields missing
C9_Witness ==
    /\ Validated /\ config.rule = "MustRunAs"
    /\ Len(config.ranges) = 1 /\ BothMissing(config.ranges[1])
    /\ settingsResult = Ok

\* C11: for MustRunAs settings that passed validation and a workload with a
\* spec section and no fsGroup, do_validate on the mutated workload of the
\* first call, under the same settings, returns Accept: the defaulted fsGroup
\* lies inside the configured ranges.
C11_MutatedWorkloadIsAccepted ==
    (/\ Validated /\ settingsResult.ok /\ settings.rule = "MustRunAs"
     /\ Decided /\ FsGroupAbsent /\ again.kind # "None")
        => /\ again = Accept
           /\ SomeRangeHolds(
                  response.object[1].spec[1].securityContext[1].fsGroup[1],
                  settings.ranges)

\* C11 witness: the second call made on a workload mutated under validated
\* settings of two ranges, the first of them with min < max
C11_Witness ==
    /\ Validated /\ settingsResult.ok /\ settings.rule = "MustRunAs"
    /\ Decided /\ FsGroupAbsent
    /\ Len(settings.ranges) >= 2
    /\ settings.ranges[1].min < settings.ranges[1].max
    /\ again.kind = "Accept"

====
